---- MODULE Spec2Model ----
(***************************************************************************)
(* EmotionAnalyzer.analyze_emotion (src/emotion_analyzer.py): the          *)
(* per-frame decision logic on top of the external classifier.  One        *)
(* instance, called once per frame.  The external classifier               *)
(* (DeepFace.analyze) is an input: each of its two invocations either      *)
(* raises or returns a score mapping.                                      *)
(*                                                                         *)
(* Number representation.  Scores are integers on the 0..100 scale.  An    *)
(* averaged score is stored as the integer AvgDen * average (the code      *)
(* divides a sum of at most two scores by 1 or 2, so this is exact).  A    *)
(* confidence is stored in units of 1/ConfScale.  The weighted scores are  *)
(* IEEE-754 doubles in the code (score * 1.2 etc.); they are computed      *)
(* here bit-exactly on 20-bit limbs, because the dominant pick compares    *)
(* them and rounding decides the comparison when two products coincide as  *)
(* decimals (22 * 1.2 < 24 * 1.1 in doubles).                              *)
(***************************************************************************)
EXTENDS Integers, Sequences, FiniteSets, TLC

\* ---------------------------------------------------------------- bounds
\* A classifier result carries at most MaxKeys of the 7 labels (the others
\* are missing from the mapping), each with a score from ScoreVals.
MaxKeys == 1
ScoreVals == {60, 100}

\* ------------------------------------------------------------- constants
emotions == <<"angry", "disgust", "fear", "happy", "sad", "surprise", "neutral">>
Labels == {emotions[i] : i \in 1..Len(emotions)}
\* a window of three frames instead of two
smooth_window_larger == 2 + 1

smooth_window == 2

\* emotion_weights in tenths: 12 stands for the literal 1.2
emotion_weights ==
  [sad |-> 12, disgust |-> 12, angry |-> 11, fear |-> 11,
   happy |-> 9, neutral |-> 8, surprise |-> 10]

\* the classifier is invoked twice per frame
MaxAttempts == 2
\* averaged scores are stored multiplied by AvgDen, confidences by ConfScale
AvgDen == MaxAttempts
ConfScale == 10 * 100
\* a local the call did not assign
NoLabel == "none"
NoConf == 0 - 1

\* ------------------------------------------------- IEEE-754 double product
RECURSIVE Pow2(_)
Pow2(n) == IF n = 0 THEN 1 ELSE 2 * Pow2(n - 1)

LimbBase == Pow2(20)

RECURSIVE BitLen(_)
BitLen(n) == IF n = 0 THEN 0 ELSE 1 + BitLen(n \div 2)

\* carry propagation over little-endian limbs <<l0, l1, l2, l3>>
Normalize(p) ==
  LET c0 == p[1] \div LimbBase
      t1 == p[2] + c0
      c1 == t1 \div LimbBase
      t2 == p[3] + c1
      c2 == t2 \div LimbBase
  IN  <<p[1] % LimbBase, t1 % LimbBase, t2 % LimbBase, p[4] + c2>>

\* The double nearest to the decimal literal k/10 (0.8 <= k/10 < 2), as its
\* 53-bit significand in limbs: the value is m * 2^-53 for k < 10 and
\* m * 2^-52 for k >= 10.  Long division of k * 2^53 (k * 2^52) by 10,
\* rounded to nearest, ties to even.
DoubleOfTenths(k) ==
  LET top == IF k >= 10 THEN 4096 * k ELSE 8192 * k
      q2 == top \div 10
      n1 == (top % 10) * LimbBase
      q1 == n1 \div 10
      n0 == (n1 % 10) * LimbBase
      q0 == n0 \div 10
      r0 == n0 % 10
      up == (2 * r0 > 10) \/ (2 * r0 = 10 /\ q0 % 2 = 1)
  IN  Normalize(<<q0 + (IF up THEN 1 ELSE 0), q1, q2, 0>>)

\* exact product c * m of a small integer and a limb number
MulSmall(m, c) == Normalize(<<c * m[1], c * m[2], c * m[3], c * m[4]>>)

BitLength(p) ==
  IF p[4] > 0 THEN 60 + BitLen(p[4])
  ELSE IF p[3] > 0 THEN 40 + BitLen(p[3])
  ELSE IF p[2] > 0 THEN 20 + BitLen(p[2])
  ELSE BitLen(p[1])

\* round an exact product to 53 significant bits, ties to even
Round53(p) ==
  LET s == BitLength(p) - 53
  IN  IF s <= 0 THEN p
      ELSE LET unit == Pow2(s)
               r == p[1] % unit
               q == p[1] \div unit
               up == (2 * r > unit) \/ (2 * r = unit /\ q % 2 = 1)
           IN  Normalize(<<p[1] - r + (IF up THEN unit ELSE 0), p[2], p[3], p[4]>>)

\* the double (avg2/AvgDen) * (k/10), in units of 2^-54
FloatMul(avg2, k) ==
  Round53(MulSmall(DoubleOfTenths(k), avg2 * (IF k >= 10 THEN 2 ELSE 1)))

FloatGT(x, y) ==
  \/ x[4] > y[4]
  \/ x[4] = y[4] /\ x[3] > y[3]
  \/ x[4] = y[4] /\ x[3] = y[3] /\ x[2] > y[2]
  \/ x[4] = y[4] /\ x[3] = y[3] /\ x[2] = y[2] /\ x[1] > y[1]

\* ------------------------------------------------------------------ state
VARIABLES
  previous_emotions,    \* self.previous_emotions
  history_at_entry,     \* self.previous_emotions when the last call began
  face_img,             \* argument of the last call
  attempts,             \* classifier invocations of the last call, in order
  results,              \* local results
  avg_emotions,         \* local avg_emotions, scaled by AvgDen
  dominant_emotion,     \* local dominant_emotion[0]
  smoothed_emotion,     \* local smoothed_emotion
  smoothed_confidence,  \* local smoothed_confidence, in 1/ConfScale
  returned,             \* the returned tuple
  exit,                 \* the return statement taken by the last call
  pc                    \* "idle" between calls, "returned" when a call has returned

vars == <<previous_emotions, history_at_entry, face_img, attempts, results,
          avg_emotions, dominant_emotion, smoothed_emotion,
          smoothed_confidence, returned, exit, pc>>

\* ----------------------------------------------------------------- inputs
\* "none": face_img is None; "empty": an array with size 0; "invalid": an
\* object on which validation or preprocessing raises; "ok": a face crop.
Images == {"none", "empty", "invalid", "ok"}

RawMappings ==
  UNION {[S -> ScoreVals] : S \in {T \in SUBSET Labels : Cardinality(T) <= MaxKeys}}

Failed == [ok |-> FALSE, emotion |-> <<>>]
Outcomes == {Failed} \cup {[ok |-> TRUE, emotion |-> r] : r \in RawMappings}

\* A frame: the image and what the two classifier invocations will do with
\* it.  The classifier's behaviour is drawn only for images that reach it.
Frames ==
  {[img |-> i, o1 |-> Failed, o2 |-> Failed] : i \in Images \ {"ok"}}
  \cup {[img |-> "ok", o1 |-> a, o2 |-> b] : a \in Outcomes, b \in Outcomes}

\* ------------------------------------------------------------- the pipeline
\* r.get(emotion, 0)
Get(r, e) == IF e \in DOMAIN r THEN r[e] ELSE 0

\* only the first attempt's result is kept
Collect_FirstOnly(o1, o2) == IF o1.ok THEN <<o1.emotion>> ELSE <<>>

\* results after the two try blocks: the successful mappings, in order
Collect(o1, o2) ==
  (IF o1.ok THEN <<o1.emotion>> ELSE <<>>) \o (IF o2.ok THEN <<o2.emotion>> ELSE <<>>)

RECURSIVE SumScores(_, _, _)
SumScores(rs, e, i) ==
  IF i > Len(rs) THEN 0 ELSE Get(rs[i], e) + SumScores(rs, e, i + 1)

\* the sum divided by the number of attempts made, not of those that succeeded
Average_OverBothAttempts(rs, e) == (SumScores(rs, e, 1) * AvgDen) \div MaxAttempts

\* sum(values) / len(values), scaled by AvgDen
Average(rs, e) == (SumScores(rs, e, 1) * AvgDen) \div Len(rs)

AvgEmotions(rs) == [e \in Labels |-> Average(rs, e)]

\* conf * self.emotion_weights.get(emo, 1.0), as a double, for every label
\* and every averaged score
WeightedTable ==
  [e \in Labels |-> [a \in 0..(100 * AvgDen) |-> FloatMul(a, emotion_weights[e])]]

Weighted(avg, e) == WeightedTable[e][avg[e]]

\* max(weighted_emotions.items(), key=...)[0]: the first maximum in
\* dictionary order, which is the order of self.emotions
RECURSIVE MaxWeighted(_, _, _)
MaxWeighted(avg, i, best) ==
  IF i > Len(emotions) THEN best
  ELSE MaxWeighted(avg, i + 1,
         IF FloatGT(Weighted(avg, emotions[i]), Weighted(avg, best))
         THEN emotions[i] ELSE best)

\* the first maximum of the unweighted averages
RECURSIVE MaxUnweighted(_, _, _)
MaxUnweighted(avg, i, best) ==
  IF i > Len(emotions) THEN best
  ELSE MaxUnweighted(avg, i + 1,
         IF avg[emotions[i]] > avg[best] THEN emotions[i] ELSE best)

Dominant_Unweighted(avg) == MaxUnweighted(avg, 2, emotions[1])

Dominant(avg) == MaxWeighted(avg, 2, emotions[1])

\* pop() instead of pop(0): the newest label is dropped
PushHistory_PopNewest(h, e) ==
  LET a == Append(h, e)
  IN  IF Len(a) > smooth_window THEN SubSeq(a, 1, Len(a) - 1) ELSE a

\* append, then pop(0) when longer than the window
PushHistory(h, e) ==
  LET a == Append(h, e)
  IN  IF Len(a) > smooth_window THEN Tail(a) ELSE a

Count(h, e) == Cardinality({i \in 1..Len(h) : h[i] = e})

\* Counter(h).most_common(1)[0][0]: the first-inserted key of maximal count
RECURSIVE MostCommonFrom(_, _, _)
MostCommonFrom(h, i, best) ==
  IF i > Len(h) THEN best
  ELSE MostCommonFrom(h, i + 1,
         IF Count(h, h[i]) > Count(h, best) THEN h[i] ELSE best)

\* ties go to the last-inserted key
RECURSIVE MostCommonLastFrom(_, _, _)
MostCommonLastFrom(h, i, best) ==
  IF i > Len(h) THEN best
  ELSE MostCommonLastFrom(h, i + 1,
         IF Count(h, h[i]) >= Count(h, best) THEN h[i] ELSE best)

MostCommon_LastMax(h) == MostCommonLastFrom(h, 2, h[1])

MostCommon(h) == MostCommonFrom(h, 2, h[1])

\* the 0..100 score returned without the division by 100
Confidence_NoRescale(avg, e) == (avg[e] * ConfScale) \div AvgDen

\* avg_emotions[label] / 100.0
Confidence(avg, e) == (avg[e] * ConfScale) \div (AvgDen * 100)

\* max(other_emotions.items(), key=...): first maximum among the
\* non-neutral labels, by unweighted average
RECURSIVE MaxOther(_, _, _)
MaxOther(avg, i, best) ==
  IF i > Len(emotions) THEN best
  ELSE MaxOther(avg, i + 1,
         IF emotions[i] # "neutral" /\ avg[emotions[i]] > avg[best]
         THEN emotions[i] ELSE best)

\* neutral is not filtered out of the candidates
NextEmotion_IncludesNeutral(avg) == MaxUnweighted(avg, 2, emotions[1])

NextEmotion(avg) == MaxOther(avg, 2, emotions[1])

\* smoothed_emotion == 'neutral' and smoothed_confidence < 0.6
LowNeutral(label, conf) == label = "neutral" /\ conf * 10 < 6 * ConfScale

\* next_emotion[1] > 20
Subtle(avg) == avg[NextEmotion(avg)] > 20 * AvgDen

\* total classifier failure reported like an internal error
NoResultsReturn_AsError == [label |-> "neutral", conf |-> ConfScale \div 10]

InvalidInputReturn == [label |-> "neutral", conf |-> 0]
NoResultsReturn == [label |-> "neutral", conf |-> 0]
ErrorReturn == [label |-> "neutral", conf |-> ConfScale \div 10]

\* the size check is missing
IsAbsent_NoneOnly(img) == img = "none"

\* face_img is None or face_img.size == 0
IsAbsent(img) == img \in {"none", "empty"}

\* The whole call, as a function of the history and the inputs.
Analyze(h, img, o1, o2) ==
  LET blank == [history |-> h, attempts |-> <<>>, results |-> <<>>,
                avg |-> <<>>, dominant |-> NoLabel, smoothed |-> NoLabel,
                sconf |-> NoConf]
  IN
  IF IsAbsent(img) THEN
    blank @@ [ret |-> InvalidInputReturn, exit |-> "invalid_input"]
  ELSE IF img = "invalid" THEN
    blank @@ [ret |-> ErrorReturn, exit |-> "error"]
  ELSE
    LET rs == Collect(o1, o2)
        tried == [blank EXCEPT !.attempts = <<o1, o2>>, !.results = rs]
    IN
    IF rs = <<>> THEN
      tried @@ [ret |-> NoResultsReturn, exit |-> "no_results"]
    ELSE
      LET avg == AvgEmotions(rs)
          dom == Dominant(avg)
          h2 == PushHistory(h, dom)
          sm == IF h2 # <<>> THEN MostCommon(h2) ELSE dom
          sc == Confidence(avg, sm)
          nx == NextEmotion(avg)
          done == [tried EXCEPT !.history = h2, !.avg = avg, !.dominant = dom,
                                !.smoothed = sm, !.sconf = sc]
      IN
      IF LowNeutral(sm, sc) /\ Subtle(avg) THEN
        done @@ [ret |-> [label |-> nx, conf |-> Confidence(avg, nx)], exit |-> "override"]
      ELSE
        done @@ [ret |-> [label |-> sm, conf |-> sc], exit |-> "smoothed"]

\* ---------------------------------------------------------------- actions
NoReturn == [label |-> NoLabel, conf |-> NoConf]

Init ==
  /\ previous_emotions = <<>>
  /\ history_at_entry = <<>>
  /\ face_img = "none"
  /\ attempts = <<>>
  /\ results = <<>>
  /\ avg_emotions = <<>>
  /\ dominant_emotion = NoLabel
  /\ smoothed_emotion = NoLabel
  /\ smoothed_confidence = NoConf
  /\ returned = NoReturn
  /\ exit = "none"
  /\ pc = "idle"

\* one call of analyze_emotion, from entry to its return statement
analyze_emotion(img, o1, o2) ==
  /\ pc = "idle"
  /\ \E out \in {Analyze(previous_emotions, img, o1, o2)} :
         /\ history_at_entry' = previous_emotions
         /\ face_img' = img
         /\ previous_emotions' = out.history
         /\ attempts' = out.attempts
         /\ results' = out.results
         /\ avg_emotions' = out.avg
         /\ dominant_emotion' = out.dominant
         /\ smoothed_emotion' = out.smoothed
         /\ smoothed_confidence' = out.sconf
         /\ returned' = out.ret
         /\ exit' = out.exit
  /\ pc' = "returned"

\* the caller takes the returned tuple; the call's arguments and locals are
\* gone, only self.previous_emotions stays
NextFrame ==
  /\ pc = "returned"
  /\ pc' = "idle"
  /\ history_at_entry' = <<>>
  /\ face_img' = "none"
  /\ attempts' = <<>>
  /\ results' = <<>>
  /\ avg_emotions' = <<>>
  /\ dominant_emotion' = NoLabel
  /\ smoothed_emotion' = NoLabel
  /\ smoothed_confidence' = NoConf
  /\ returned' = NoReturn
  /\ exit' = "none"
  /\ UNCHANGED previous_emotions

Next ==
  \/ /\ pc = "idle"
     /\ \E f \in Frames : analyze_emotion(f.img, f.o1, f.o2)
  \/ NextFrame

Spec == Init /\ [][Next]_vars

TypeOK ==
  /\ previous_emotions \in Seq(Labels)
  /\ pc \in {"idle", "returned"}
  /\ exit \in {"none", "invalid_input", "error", "no_results", "override", "smoothed"}

\* ------------------------------------------------------------- properties
\* the last call has returned and its record is still in the state
Called == pc = "returned"

\* the last call got as far as the smoothing step (lines 111-124)
Reached == Called /\ exit \in {"override", "smoothed"}

Index(e) == CHOOSE i \in 1..Len(emotions) : emotions[i] = e

\* the last smooth_window elements of a sequence
LastW(s) ==
  IF Len(s) <= smooth_window THEN s
  ELSE SubSeq(s, Len(s) - smooth_window + 1, Len(s))

Succeeded == {i \in 1..Len(attempts) : attempts[i].ok}

\* c (in 1/ConfScale) is the averaged score a (in 1/AvgDen) divided by 100
IsScoreOver100(c, a) == c * 100 * AvgDen = a * ConfScale

\* the weighted score of label e in the last call, as the double the code computes
WeightedScore(e) == WeightedTable[e][avg_emotions[e]]

\* C1: every call returns a pair whose label is one of the 7 emotions and
\* whose confidence lies in [0,1], through one of the function's return
\* statements, whatever the history and the classifier outcomes.
Thm_C1_WellFormedReturn ==
  Called =>
    /\ returned.label \in Labels
    /\ 0 <= returned.conf /\ returned.conf <= ConfScale
    /\ exit \in {"invalid_input", "error", "no_results", "override", "smoothed"}

\* a partial failure with a full history that returns confidence 1.0
Wit_C1_FullConfidence ==
  /\ Reached
  /\ Len(history_at_entry) = smooth_window
  /\ Cardinality(Succeeded) = 1
  /\ returned.conf = ConfScale

\* C2: an absent or empty image returns exactly (neutral, 0.0), the
\* classifier is not invoked and the history is whatever it was.
Thm_C2_AbsentImage ==
  Called /\ face_img \in {"none", "empty"} =>
    /\ returned = [label |-> "neutral", conf |-> 0]
    /\ attempts = <<>>
    /\ previous_emotions = history_at_entry

\* an empty image arriving on a full, non-neutral history
Wit_C2_EmptyOnFullHistory ==
  /\ Called
  /\ face_img = "empty"
  /\ Len(history_at_entry) = smooth_window
  /\ history_at_entry[1] # "neutral"

\* C3: when both classifier attempts fail on a non-empty image the call
\* returns exactly (neutral, 0.0), whatever the history.
Thm_C3_BothAttemptsFail ==
  Called /\ Len(attempts) = MaxAttempts /\ Succeeded = {} =>
    returned = [label |-> "neutral", conf |-> 0]

\* both attempts fail on a full, non-neutral history
Wit_C3_BothFailOnFullHistory ==
  /\ Called
  /\ face_img = "ok"
  /\ Len(attempts) = MaxAttempts
  /\ Succeeded = {}
  /\ Len(history_at_entry) = smooth_window
  /\ history_at_entry[2] # "neutral"

\* C4: the history never holds more than smooth_window labels; a call that
\* reaches the smoothing step leaves the history as the previous labels
\* followed by its candidate, and when the history was full ([A, B]) the
\* result is [B, C]: the oldest label is evicted; a call that does not reach
\* the smoothing step leaves the history as it was.
Thm_C4_BoundedFifo ==
  /\ Len(previous_emotions) <= 2
  /\ Called /\ ~Reached => previous_emotions = history_at_entry
  /\ Reached /\ Len(history_at_entry) < 2 =>
       previous_emotions = history_at_entry \o <<dominant_emotion>>
  /\ Reached /\ Len(history_at_entry) = 2 =>
       previous_emotions = <<history_at_entry[2], dominant_emotion>>

\* history [A, B] followed by a candidate C, all different
Wit_C4_Eviction ==
  /\ Reached
  /\ Len(history_at_entry) = 2
  /\ history_at_entry[1] # history_at_entry[2]
  /\ dominant_emotion \notin {history_at_entry[1], history_at_entry[2]}

\* C5: with history [A, A], a call whose candidate is C # A computes the
\* smoothed label A.
Thm_C5_TwoIdenticalWin ==
  (/\ Reached
   /\ Len(history_at_entry) = 2
   /\ history_at_entry[1] = history_at_entry[2]
   /\ dominant_emotion # history_at_entry[1])
  => smoothed_emotion = history_at_entry[1]

Wit_C5_DifferingThirdFrame ==
  /\ Reached
  /\ Len(history_at_entry) = 2
  /\ history_at_entry[1] = history_at_entry[2]
  /\ dominant_emotion # history_at_entry[1]

\* the highest unweighted non-neutral average of the last call, first in
\* label order among equals
IsTopOther(l) ==
  /\ l # "neutral"
  /\ \A e \in Labels \ {"neutral"} :
       /\ avg_emotions[e] <= avg_emotions[l]
       /\ Index(e) < Index(l) => avg_emotions[e] < avg_emotions[l]

OverrideCase ==
  /\ Reached
  /\ smoothed_emotion = "neutral"
  /\ smoothed_confidence * 10 < 6 * ConfScale
  /\ \E e \in Labels \ {"neutral"} : avg_emotions[e] > 20 * AvgDen

\* C6: when the smoothed label is neutral with confidence below 0.6 and the
\* highest non-neutral averaged score exceeds 20, the call returns that
\* non-neutral label with its averaged score / 100, and the history has
\* received the candidate label, not the returned one.
Thm_C6_NeutralOverride ==
  OverrideCase =>
    /\ IsTopOther(returned.label)
    /\ IsScoreOver100(returned.conf, avg_emotions[returned.label])
    /\ exit = "override"
    /\ previous_emotions = LastW(Append(history_at_entry, dominant_emotion))

\* the override returns a label that is neither the candidate nor neutral,
\* while the candidate is what entered the history
Wit_C6_OverrideDiffersFromCandidate ==
  /\ OverrideCase
  /\ returned.label # dominant_emotion
  /\ previous_emotions[Len(previous_emotions)] = dominant_emotion

\* C7: the candidate is the label of maximal weighted score, the first such
\* label in the order of self.emotions; the returned confidence is the
\* returned label's unweighted averaged score / 100.
Thm_C7_WeightsPickOnly ==
  Reached =>
    /\ \A e \in Labels :
         /\ ~FloatGT(WeightedScore(e), WeightedScore(dominant_emotion))
         /\ Index(e) < Index(dominant_emotion) =>
              FloatGT(WeightedScore(dominant_emotion), WeightedScore(e))
    /\ IsScoreOver100(returned.conf, avg_emotions[returned.label])

\* averages {happy: 50, sad: 50}: sad is picked by weight and, on a fresh
\* instance, returned with confidence 0.50
Wit_C7_SadOverHappy ==
  /\ Reached
  /\ avg_emotions["happy"] = 50 * AvgDen
  /\ avg_emotions["sad"] = 50 * AvgDen
  /\ dominant_emotion = "sad"
  /\ returned = [label |-> "sad", conf |-> ConfScale \div 2]

\* C8 as stated: every call appends one label to the history.
Orig_C8_EveryCallAppends ==
  Called =>
    \E l \in Labels : previous_emotions = LastW(Append(history_at_entry, l))

\* C8 amended: a call appends one label (its candidate, evicting the oldest
\* when the history is full) exactly when the image is usable and at least
\* one classifier attempt succeeds; every other call leaves the history as
\* it was.
Thm_C8_AppendWhenClassified ==
  Called =>
    /\ Reached <=> (face_img = "ok" /\ Succeeded # {})
    /\ Reached => previous_emotions = LastW(Append(history_at_entry, dominant_emotion))
    /\ ~Reached => previous_emotions = history_at_entry

\* only the second attempt succeeds and its candidate replaces the oldest label
Wit_C8_AppendAfterPartialFailure ==
  /\ Reached
  /\ Succeeded = {2}
  /\ Len(history_at_entry) = smooth_window
  /\ previous_emotions # history_at_entry

\* C9: a failed attempt is excluded and the call goes on; each label's
\* average is the mean over the successful attempts, a missing label
\* counting as 0, so with one success the averages are that attempt's scores
\* whichever attempt failed.
Thm_C9_PartialFailure ==
  Called /\ face_img = "ok" /\ Succeeded # {} =>
    /\ Reached
    /\ \A e \in Labels :
         /\ Succeeded = {1} => avg_emotions[e] = AvgDen * Get(attempts[1].emotion, e)
         /\ Succeeded = {2} => avg_emotions[e] = AvgDen * Get(attempts[2].emotion, e)
         /\ Succeeded = {1, 2} =>
              avg_emotions[e] * 2 =
                AvgDen * (Get(attempts[1].emotion, e) + Get(attempts[2].emotion, e))

\* the first attempt fails, the second returns a mapping with a score
Wit_C9_FirstAttemptFails ==
  /\ Reached
  /\ Succeeded = {2}
  /\ \E e \in Labels : avg_emotions[e] = 100 * AvgDen

\* C10: once the history is non-empty the smoothed label is the candidate of
\* the previous call that reached the smoothing step (the newest label of
\* the history at entry); on a fresh instance it is the current candidate;
\* the smoothed confidence is the current frame's averaged score of the
\* smoothed label / 100.
Thm_C10_OneFrameLag ==
  Reached =>
    /\ history_at_entry # <<>> =>
         smoothed_emotion = history_at_entry[Len(history_at_entry)]
    /\ history_at_entry = <<>> => smoothed_emotion = dominant_emotion
    /\ IsScoreOver100(smoothed_confidence, avg_emotions[smoothed_emotion])

\* the smoothed label is the previous candidate, differs from the current
\* one, and is reported with the current frame's score for it
Wit_C10_LaggingLabel ==
  /\ Reached
  /\ Len(history_at_entry) = 2
  /\ history_at_entry[1] # history_at_entry[2]
  /\ dominant_emotion # history_at_entry[2]
  /\ smoothed_emotion = history_at_entry[2]
  /\ avg_emotions[smoothed_emotion] > 0

====
